---- MODULE Spec2Model ----
(***************************************************************************)
(* Model of blink_led_modular/src/blink.c: blink_led_init() configures bit *)
(* PB0 of the direction register DDRB as an output, blink_led() drives bit *)
(* PB0 of the output register PORTB high, busy-waits 1000 ms, drives it    *)
(* low and busy-waits another 1000 ms.                                     *)
(*                                                                         *)
(* The two registers are 8-bit memory-mapped registers; the C compound     *)
(* assignments promote the register to int, combine it with an int mask    *)
(* and truncate the result to 8 bits.  Values are kept as naturals and the *)
(* bitwise operators are computed bit by bit.                              *)
(*                                                                         *)
(* Time is the delay time handed to _delay_ms(); a busy-wait advances in   *)
(* slices of at most Tick ms so that a delay has intermediate instants.    *)
(***************************************************************************)
EXTENDS Integers, Sequences, FiniteSets

\* ------------------------------------------------------------------ bounds
MaxInit == 2
MaxBlink == 2
Tick == 250

\* --------------------------------------------------------- program constants
RegBits == 8
IntBits == 16
PB0 == 0
Delay1Ms == 1000

\* mutant: the second delay is half the first
Delay2MsHalved == Delay1Ms \div 2

Delay2Ms == 1000

Byte == 0 .. (2^RegBits - 1)

\* ------------------------------------------------------------ C arithmetic
Min(a, b) == IF a <= b THEN a ELSE b

RECURSIVE BitAnd(_, _, _)
BitAnd(a, b, w) ==
    IF w = 0 THEN 0
    ELSE (a % 2) * (b % 2) + 2 * BitAnd(a \div 2, b \div 2, w - 1)

RECURSIVE BitOr(_, _, _)
BitOr(a, b, w) ==
    IF w = 0 THEN 0
    ELSE (IF a % 2 = 1 \/ b % 2 = 1 THEN 1 ELSE 0)
         + 2 * BitOr(a \div 2, b \div 2, w - 1)

RECURSIVE BitXor(_, _, _)
BitXor(a, b, w) ==
    IF w = 0 THEN 0
    ELSE ((a + b) % 2) + 2 * BitXor(a \div 2, b \div 2, w - 1)

\* ~x on an int: every one of the IntBits bits inverted
BitNot(a) == (2^IntBits - 1) - a

\* 1 << n as an int
Shl1(n) == (2^n) % (2^IntBits)

\* conversion of an int result to the 8-bit register
ToReg(x) == x % (2^RegBits)

\* (1 << PB0)
PinMask == Shl1(PB0)

\* mutants of the three register updates
OrAssignAsAssign(r) == ToReg(PinMask)
OrAssignAsXor(r) == ToReg(BitXor(r, PinMask, IntBits))
OrAssignWrongBit(r) == ToReg(BitOr(r, Shl1(PB0 + 1), IntBits))
OrAssignAsClear(r) == ToReg(BitAnd(r, BitNot(PinMask), IntBits))
AndAssignAsAssign(r) == ToReg(BitNot(PinMask))
AndAssignNoNot(r) == ToReg(BitAnd(r, PinMask, IntBits))

\* DDRB |= (1 << PB0)
InitValue(r) == ToReg(BitOr(r, PinMask, IntBits))

\* PORTB |= (1 << PB0)
HighValue(r) == ToReg(BitOr(r, PinMask, IntBits))

\* PORTB &= ~(1 << PB0)
LowValue(r) == ToReg(BitAnd(r, BitNot(PinMask), IntBits))

\* bit PB0 of a register value
PinBit(r) == (r \div (2^PB0)) % 2

\* ------------------------------------------------------------------- state
VARIABLES
    DDRB,        \* direction register of port B
    PORTB,       \* output register of port B
    pc,          \* source line about to execute ("main": in the caller)
    remaining,   \* ms the running _delay_ms() still has to wait
    waited,      \* ms the running (or last) _delay_ms() has waited so far
    now,         \* total delay time elapsed, in ms
    sinceWrite,  \* delay time elapsed since the last write to PORTB
    events,      \* writes to PORTB and delays of the current blink_led() call
    nInit,       \* calls to blink_led_init() started
    nBlink,      \* calls to blink_led() started
    ddrb0,       \* DDRB before the program ran
    portb0,      \* PORTB before the program ran
    ddrbPre,     \* DDRB on entry to the latest blink_led_init() call
    ddrbAfter1,  \* DDRB after the first blink_led_init() call (-1: none yet)
    portbPre,    \* PORTB on entry to the latest blink_led() call
    nowPre,      \* now on entry to the latest call
    uninit,      \* the latest blink_led() call had no blink_led_init() before it
    misuse,      \* some blink_led() call had no blink_led_init() before it
    rises,       \* 0 -> 1 transitions of bit PB0 of PORTB
    falls,       \* 1 -> 0 transitions of bit PB0 of PORTB
    lastLevel,   \* level of the latest write to bit PB0 of PORTB (-1: none)
    prevLevel    \* level of the write before it (-1: none)

vars == << DDRB, PORTB, pc, remaining, waited, now, sinceWrite, events, nInit,
           nBlink, ddrb0, portb0, ddrbPre, ddrbAfter1, portbPre, nowPre,
           uninit, misuse, rises, falls, lastLevel, prevLevel >>

regs == << DDRB, PORTB >>
clock == << remaining, waited, now, sinceWrite >>
initGhost == << ddrbPre, ddrbAfter1, nInit >>
blinkGhost == << portbPre, uninit, misuse, nBlink >>
edges == << rises, falls, lastLevel, prevLevel >>
boot == << ddrb0, portb0 >>

InitBody == {"L5", "L6"}
BlinkBody == {"L8", "L9", "D9", "L10", "L11", "D11", "L12"}
PCs == {"main"} \cup InitBody \cup BlinkBody

\* register values the other register is paired with at power-up: no bit set,
\* only the pin's bit, all but the pin's bit, every bit
Corner == {0, PinMask, 2^RegBits - 1 - PinMask, 2^RegBits - 1}

\* The registers hold arbitrary 8-bit values when the program starts: every
\* value of each register is paired with the Corner values of the other.
Init ==
    /\ DDRB \in Byte
    /\ PORTB \in Byte
    /\ (DDRB \in Corner \/ PORTB \in Corner)
    /\ pc = "main"
    /\ remaining = 0
    /\ waited = 0
    /\ now = 0
    /\ sinceWrite = 0
    /\ events = << >>
    /\ nInit = 0
    /\ nBlink = 0
    /\ ddrb0 = DDRB
    /\ portb0 = PORTB
    /\ ddrbPre = DDRB
    /\ ddrbAfter1 = -1
    /\ portbPre = PORTB
    /\ nowPre = 0
    /\ uninit = FALSE
    /\ misuse = FALSE
    /\ rises = 0
    /\ falls = 0
    /\ lastLevel = -1
    /\ prevLevel = -1

\* ------------------------------------------------------- blink_led_init()
\* entry of blink_led_init()
blink_led_init_call ==
    /\ pc = "main"
    /\ nInit < MaxInit
    /\ pc' = "L5"
    /\ nInit' = nInit + 1
    /\ ddrbPre' = DDRB
    /\ nowPre' = now
    /\ UNCHANGED << regs, clock, events, ddrbAfter1, blinkGhost, edges, boot >>

\* mutant: the statement also drives the pin to a known (low) level
blink_led_init_L5_drives_low ==
    /\ pc = "L5"
    /\ DDRB' = InitValue(DDRB)
    /\ PORTB' = LowValue(PORTB)
    /\ ddrbAfter1' = IF nInit = 1 THEN DDRB' ELSE ddrbAfter1
    /\ pc' = "L6"
    /\ UNCHANGED << clock, events, ddrbPre, nInit, nowPre, blinkGhost, edges,
                    boot >>

\* DDRB |= (1 << PB0);
blink_led_init_L5 ==
    /\ pc = "L5"
    /\ DDRB' = InitValue(DDRB)
    /\ ddrbAfter1' = IF nInit = 1 THEN DDRB' ELSE ddrbAfter1
    /\ pc' = "L6"
    /\ UNCHANGED << PORTB, clock, events, ddrbPre, nInit, nowPre, blinkGhost,
                    edges, boot >>

\* return of blink_led_init()
blink_led_init_ret ==
    /\ pc = "L6"
    /\ pc' = "main"
    /\ UNCHANGED << regs, clock, events, initGhost, nowPre, blinkGhost, edges,
                    boot >>

\* ------------------------------------------------------------ blink_led()
\* entry of blink_led()
blink_led_call ==
    /\ pc = "main"
    /\ nBlink < MaxBlink
    /\ pc' = "L8"
    /\ nBlink' = nBlink + 1
    /\ portbPre' = PORTB
    /\ nowPre' = now
    /\ events' = << >>
    /\ uninit' = (nInit = 0)
    /\ misuse' = (misuse \/ nInit = 0)
    /\ UNCHANGED << regs, clock, initGhost, edges, boot >>

\* a write of value v to PORTB, seen on the pin
PinWrite(v) ==
    /\ PORTB' = v
    /\ events' = Append(events, << "write", PinBit(v) >>)
    /\ rises' = IF PinBit(PORTB) = 0 /\ PinBit(v) = 1 THEN rises + 1 ELSE rises
    /\ falls' = IF PinBit(PORTB) = 1 /\ PinBit(v) = 0 THEN falls + 1 ELSE falls
    /\ prevLevel' = lastLevel
    /\ lastLevel' = PinBit(v)
    /\ sinceWrite' = 0

\* mutant: the statement also sets the pin's direction
blink_led_L8_sets_direction ==
    /\ pc = "L8"
    /\ PinWrite(HighValue(PORTB))
    /\ DDRB' = InitValue(DDRB)
    /\ pc' = "L9"
    /\ UNCHANGED << remaining, waited, now, initGhost, nowPre, blinkGhost,
                    boot >>

\* PORTB |= (1 << PB0);
blink_led_L8 ==
    /\ pc = "L8"
    /\ PinWrite(HighValue(PORTB))
    /\ pc' = "L9"
    /\ UNCHANGED << DDRB, remaining, waited, now, initGhost, nowPre,
                    blinkGhost, boot >>

\* PORTB &= ~(1 << PB0);
blink_led_L10 ==
    /\ pc = "L10"
    /\ PinWrite(LowValue(PORTB))
    /\ pc' = "L11"
    /\ UNCHANGED << DDRB, remaining, waited, now, initGhost, nowPre,
                    blinkGhost, boot >>

\* return of blink_led()
blink_led_ret ==
    /\ pc = "L12"
    /\ pc' = "main"
    /\ UNCHANGED << regs, clock, events, initGhost, nowPre, blinkGhost, edges,
                    boot >>

\* ------------------------------------------------------------ _delay_ms()
\* the call sites of _delay_ms(): line, line while waiting, line after, ms
DelaySites ==
    { << "L9", "D9", "L10", Delay1Ms >>, << "L11", "D11", "L12", Delay2Ms >> }

\* _delay_ms(ms) is entered
delay_call ==
    \E s \in DelaySites :
        /\ pc = s[1]
        /\ pc' = s[2]
        /\ remaining' = s[4]
        /\ waited' = 0
        /\ UNCHANGED << regs, now, sinceWrite, events, initGhost, nowPre,
                        blinkGhost, edges, boot >>

\* the busy-wait spins for one more slice
delay_tick ==
    /\ pc \in {"D9", "D11"}
    /\ remaining > 0
    /\ LET step == Min(Tick, remaining) IN
        /\ remaining' = remaining - step
        /\ waited' = waited + step
        /\ now' = now + step
        /\ sinceWrite' = sinceWrite + step
    /\ UNCHANGED << regs, pc, events, initGhost, nowPre, blinkGhost, edges,
                    boot >>

\* mutant: the busy-wait gives up during its last slice
DelayDoneEarly(rem) == rem <= Tick

\* the busy-wait has run to completion
DelayDone(rem) == rem = 0

\* _delay_ms(ms) returns
delay_ret ==
    \E s \in DelaySites :
        /\ pc = s[2]
        /\ DelayDone(remaining)
        /\ pc' = s[3]
        /\ events' = Append(events, << "delay", waited >>)
        /\ UNCHANGED << regs, clock, initGhost, nowPre, blinkGhost, edges,
                        boot >>

\* ------------------------------------------------------------ the program
\* the statements of the two functions
Body ==
    \/ blink_led_init_L5
    \/ blink_led_init_ret
    \/ blink_led_L8
    \/ blink_led_L10
    \/ delay_call
    \/ delay_tick
    \/ delay_ret
    \/ blink_led_ret

\* a caller that calls the two functions in any order, a bounded number of times
Next ==
    \/ blink_led_init_call
    \/ blink_led_call
    \/ Body

Spec == Init /\ [][Next]_vars

\* the processor keeps executing the statements of a function it has entered
FairSpec == Spec /\ WF_vars(Body)

\* The entry point of the design: blink_led_init() once, then blink_led() in
\* an unbounded loop.  The observation counters restart at every iteration.
main_init ==
    /\ pc = "main"
    /\ nInit = 0
    /\ pc' = "L5"
    /\ nInit' = 1
    /\ ddrbPre' = DDRB
    /\ nowPre' = now
    /\ UNCHANGED << regs, clock, events, ddrbAfter1, blinkGhost, edges, boot >>

main_loop ==
    /\ pc = "main"
    /\ nInit = 1
    /\ pc' = "L8"
    /\ nBlink' = 1
    /\ portbPre' = PORTB
    /\ now' = 0
    /\ nowPre' = 0
    /\ rises' = 0
    /\ falls' = 0
    /\ events' = << >>
    /\ uninit' = FALSE
    /\ misuse' = FALSE
    /\ UNCHANGED << regs, remaining, waited, sinceWrite, initGhost, lastLevel,
                    prevLevel, boot >>

NextLoop ==
    \/ main_init
    \/ main_loop
    \/ Body

LoopSpec == Init /\ [][NextLoop]_vars /\ WF_vars(NextLoop)

\* ----------------------------------------------------------------- claims
\* one complete cycle as the claims state it: high, 1000 ms, low, 1000 ms
Pulse ==
    << << "write", 1 >>, << "delay", 1000 >>, << "write", 0 >>, << "delay", 1000 >> >>

\* C1: when blink_led_init() returns, bit 0 of DDRB is 1 and bits 1..7 of DDRB
\* are those of the pre-call value d, for every 8-bit d (DDRB = d OR 0x01).
C1_InitSetsOnlyBit0 ==
    pc = "L6" =>
        /\ DDRB % 2 = 1
        /\ DDRB \div 2 = ddrbPre \div 2
        /\ DDRB \in 0 .. 255

C1_Witness == pc = "L6" /\ ddrbPre = 170 /\ DDRB = 171

\* C2: within a call to blink_led() the steps are write-high, 1000 ms delay,
\* write-low, 1000 ms delay, in this order: bit 0 of PORTB is 1 at every
\* instant of the first delay and 0 at every instant of the second, and the
\* call makes exactly two writes to PORTB.
C2_BlinkStepOrder ==
    /\ pc = "L8" => events = << >>
    /\ pc \in {"L9", "D9"} => PORTB % 2 = 1 /\ events = SubSeq(Pulse, 1, 1)
    /\ pc = "L10" => PORTB % 2 = 1 /\ events = SubSeq(Pulse, 1, 2)
    /\ pc \in {"L11", "D11"} => PORTB % 2 = 0 /\ events = SubSeq(Pulse, 1, 3)
    /\ pc = "L12" =>
        /\ PORTB % 2 = 0
        /\ events = Pulse
        /\ Cardinality({i \in 1 .. Len(events) : events[i][1] = "write"}) = 2

C2_Witness ==
    /\ pc = "D11"
    /\ 0 < remaining
    /\ remaining < 1000
    /\ portbPre % 2 = 0
    /\ PORTB % 2 = 0

\* C3: bits 1..7 of PORTB are those of the pre-call value p in every
\* intermediate state of a blink_led() call and after it returns; on return
\* PORTB = p AND 0xFE; the value stays within 0..255.
C3_BlinkKeepsOtherBits ==
    /\ PORTB \in 0 .. 255
    /\ pc \in BlinkBody => PORTB \div 2 = portbPre \div 2
    /\ (pc = "L12" \/ (pc = "main" /\ nBlink >= 1)) =>
        PORTB = portbPre - (portbPre % 2)

C3_Witness == pc = "L12" /\ portbPre = 255 /\ PORTB = 254

\* C4: blink_led_init() is idempotent: after k >= 1 calls DDRB is what it was
\* after the first call, and a call made when bit 0 is already 1 changes
\* nothing.
C4_InitIdempotent ==
    /\ (nInit >= 1 /\ pc # "L5") => DDRB = ddrbAfter1
    /\ (pc = "L6" /\ nInit >= 2) => DDRB = ddrbPre
    /\ (pc = "L6" /\ ddrbPre % 2 = 1) => DDRB = ddrbPre

C4_Witness ==
    /\ pc = "L6"
    /\ nInit = 2
    /\ ddrb0 % 2 = 0
    /\ DDRB = ddrb0 + 1

\* C5: after blink_led_init() followed by N calls to blink_led(), N complete
\* high/low pulses have been produced on bit 0 of PORTB (N falling
\* transitions, and N rising ones when the bit started at 0, the latest
\* write low and the one before it high) and the delays add up to 2000*N ms.
C5_NPulses ==
    (pc = "main" /\ nInit >= 1 /\ ~misuse) =>
        /\ now = 2000 * nBlink
        /\ falls = nBlink
        /\ portb0 % 2 = 0 => rises = nBlink
        /\ nBlink >= 1 => (events = Pulse /\ lastLevel = 0 /\ prevLevel = 1)

C5_Witness ==
    /\ pc = "main"
    /\ nInit >= 1
    /\ ~misuse
    /\ nBlink = 2
    /\ now = 4000
    /\ rises = 2
    /\ falls = 2

\* C6: when blink_led_init() was called before any blink_led(), bit 0 of DDRB
\* is 1 wherever blink_led() is executing (so whenever PORTB is written),
\* and once bit 0 of DDRB is 1 no step clears it.
C6_DirectionBeforeLevel ==
    /\ []((~misuse /\ pc \in BlinkBody) => DDRB % 2 = 1)
    /\ [][DDRB % 2 = 1 => DDRB' % 2 = 1]_vars

C6_Witness ==
    /\ pc = "L10"
    /\ ~misuse
    /\ ddrb0 % 2 = 0
    /\ DDRB % 2 = 1

\* C7: with blink_led() called in an unbounded loop, bit 0 of PORTB is 1
\* infinitely often and 0 infinitely often, consecutive writes alternate
\* HIGH, LOW, HIGH, LOW, and every phase a write ends has lasted exactly
\* 1000 ms of delay, also across the boundary between two calls.
C7_SquareWave ==
    /\ []<>(PORTB % 2 = 1)
    /\ []<>(PORTB % 2 = 0)
    /\ []((lastLevel # -1 /\ prevLevel # -1) => lastLevel # prevLevel)
    /\ [](lastLevel # -1 => PORTB % 2 = lastLevel)
    /\ []((pc \in {"L8", "L10"} /\ lastLevel # -1) => sinceWrite = 1000)
    /\ [](sinceWrite <= 1000)

C7_Witness ==
    /\ pc = "L8"
    /\ lastLevel = 0
    /\ prevLevel = 1
    /\ sinceWrite = 1000

\* C8: every call to blink_led() and to blink_led_init() terminates (control
\* is back in the caller again and again, so no call runs forever), a delay
\* is left only when it has run its full 1000 ms, blink_led() returns with
\* 2000 ms of delay elapsed since its entry, and no delay elapses within
\* blink_led_init().
C8_Termination ==
    /\ []<>(pc = "main")
    /\ [][(pc \in {"D9", "D11"} /\ pc' # pc) => (remaining = 0 /\ waited = 1000)]_vars
    /\ [](pc = "L12" => now - nowPre = 2000)
    /\ [](pc \in InitBody => now = nowPre)

C8_Witness ==
    /\ pc = "L12"
    /\ nBlink = 2
    /\ now - nowPre = 2000

\* C9: blink_led_init() leaves PORTB unchanged, so until the first blink_led()
\* call PORTB holds its pre-existing value, and blink_led() leaves DDRB
\* unchanged in every step.
C9_OwnRegisterOnly ==
    /\ [](nBlink = 0 => PORTB = portb0)
    /\ [][(pc \in InitBody) => (PORTB' = PORTB)]_vars
    /\ [][(pc \in BlinkBody) => (DDRB' = DDRB)]_vars

C9_Witness ==
    /\ pc = "main"
    /\ nInit = 1
    /\ nBlink = 0
    /\ PORTB % 2 = 1
    /\ PORTB = portb0

\* C10: a blink_led() call with no blink_led_init() before it makes the same
\* writes and delays as any other call, reaches no state outside the normal
\* control flow, and leaves DDRB, bit 0 included, at its pre-call value.
C10_MisuseUndetected ==
    /\ pc \in PCs
    /\ (uninit /\ pc \in BlinkBody) => DDRB = ddrb0
    /\ (uninit /\ pc = "L12") =>
        /\ events = Pulse
        /\ now - nowPre = 2000
        /\ PORTB = portbPre - (portbPre % 2)

C10_Witness ==
    /\ pc = "L12"
    /\ uninit
    /\ DDRB % 2 = 0
    /\ events = Pulse

====
